---- MODULE Spec2Model ----
(***************************************************************************)
(* A model of podcasts_scrap.py: BrazilHistoryPodcastScraper and main().   *)
(*                                                                         *)
(* Strings are sequences of one-character strings.  The accented letters   *)
(* of the keyword list are written as two-symbol tokens that each stand    *)
(* for ONE character:  e' u' i' (acute), e^ o^ (circumflex), a~ (tilde),   *)
(* c, (cedilla); their capitals are E' U' I' E^ O^ A~ C, .                 *)
(***************************************************************************)
EXTENDS Integers, Sequences, FiniteSets, TLC

VARIABLES
    brazil_keywords,   \* self.brazil_keywords
    title,             \* argument of a direct call of is_brazil_related
    related,           \* what that call returned ("none" before the call)
    pc,                \* position in main() / the method it is executing
    landing,           \* the site's landing page (input)
    site,              \* the next-page link of every listing page (input)
    podcasts,          \* the dict built by discover_podcast_links, in insertion order
    idx,               \* position of main's for loop in podcasts.items()
    all_episodes,      \* scrape_podcast: all_episodes
    current_url,       \* scrape_podcast: current_url
    page_num,          \* scrape_podcast: page_num
    soup,              \* scrape_podcast: soup (the document fetched at line 256)
    episodes,          \* scrape_podcast: episodes (returned by scrape_podcast_page)
    dir_exists,        \* filesystem: the directory podcasts_brasil exists
    files,             \* filesystem: names of the files under podcasts_brasil
    trace,             \* history: the fetch and sleep events of scrape_podcast since
                       \*          (and including) its last sleep
    visited,           \* history: the URLs whose document the loop obtained, in order
    fetch_failed       \* history: a fetch of the running scrape_podcast call failed

vars == <<brazil_keywords, title, related, pc, landing, site, podcasts, idx,
          all_episodes, current_url, page_num, soup, episodes, dir_exists,
          files, trace, visited, fetch_failed>>

\* Python's None where a string is expected (no string of the model equals it) ...
None == <<"None">>

\* ... and where an object (a parsed document, an episode dict) is expected
NoneObj == [none |-> TRUE]

----------------------------------------------------------------------------
(* Bounds of the model.                                                    *)

\* longest title handed to a direct call of is_brazil_related
MaxTitleLen == 3

----------------------------------------------------------------------------
(* str.lower() and str.upper() on the characters the model uses.           *)

Lowers ==
    <<"a","b","c","d","e","f","g","h","i","j","k","l","m","n","o","p","q",
      "r","s","t","u","v","w","x","y","z","e'","u'","i'","e^","o^","a~","c,">>

Uppers ==
    <<"A","B","C","D","E","F","G","H","I","J","K","L","M","N","O","P","Q",
      "R","S","T","U","V","W","X","Y","Z","E'","U'","I'","E^","O^","A~","C,">>

char_lower(c) ==
    IF \E i \in 1..Len(Uppers) : Uppers[i] = c
    THEN Lowers[CHOOSE i \in 1..Len(Uppers) : Uppers[i] = c]
    ELSE c

char_upper(c) ==
    IF \E i \in 1..Len(Lowers) : Lowers[i] = c
    THEN Uppers[CHOOSE i \in 1..Len(Lowers) : Lowers[i] = c]
    ELSE c

str_lower(s) == [i \in 1..Len(s) |-> char_lower(s[i])]

str_upper(s) == [i \in 1..Len(s) |-> char_upper(s[i])]

\* Python's  k in s  for strings: scan the start positions left to right.
RECURSIVE str_find(_, _, _)
str_find(k, s, from) ==
    IF from + Len(k) - 1 > Len(s) THEN FALSE
    ELSE IF SubSeq(s, from, from + Len(k) - 1) = k THEN TRUE
    ELSE str_find(k, s, from + 1)

str_in(k, s) == str_find(k, s, 1)

----------------------------------------------------------------------------
(* __init__, lines 27-34.                                                  *)

BrazilKeywordsInit ==
    <<
      <<"b","r","a","s","i","l">>,
      <<"b","r","a","s","i","l","e","i","r","o">>,
      <<"b","r","a","s","i","l","e","i","r","a">>,
      <<"i","m","p","e'","r","i","o">>,
      <<"d","o","m"," ","p","e","d","r","o">>,
      <<"r","e","p","u'","b","l","i","c","a">>,
      <<"c","o","l","o","n","i","a","l">>,
      <<"c","o","l","o^","n","i","a">>,
      <<"i","n","d","e","p","e","n","d","e^","n","c","i","a">>,
      <<"d","i","t","a","d","u","r","a">>,
      <<"v","a","r","g","a","s">>,
      <<"m","i","l","i","t","a","r","y">>,
      <<"i","n","d","i'","g","e","n","a">>,
      <<"b","a","n","d","e","i","r","a","n","t","e">>,
      <<"e","s","c","r","a","v","o">>,
      <<"a","b","o","l","i","c,","a~","o">>,
      <<"q","u","i","l","o","m","b","o">>,
      <<"c","a","n","g","a","c,","o">>,
      <<"r","e","g","e^","n","c","i","a">>,
      <<"p","r","o","v","i","n","c","i","a","l">>,
      <<"g","e","t","u'","l","i","o">>,
      <<"j","k">>,
      <<"k","u","b","i","t","s","c","h","e","k">>,
      <<"n","o","v","a"," ","r","e","p","u'","b","l","i","c","a">>,
      <<"p","r","i","m","e","i","r","o"," ","r","e","i","n","a","d","o">>,
      <<"s","e","g","u","n","d","o"," ","r","e","i","n","a","d","o">>,
      <<"p","e","r","i'","o","d","o"," ","r","e","g","e","n","c","i","a","l">>,
      <<"g","u","e","r","r","a"," ","d","o"," ","p","a","r","a","g","u","a","i">>
    >>

----------------------------------------------------------------------------
(* is_brazil_related, lines 157-168.                                       *)

\* any(keyword in title_lower for keyword in self.brazil_keywords)
RECURSIVE any_keyword(_, _, _)
any_keyword(kws, i, title_lower) ==
    IF i > Len(kws) THEN FALSE
    ELSE IF str_in(kws[i], title_lower) THEN TRUE
    ELSE any_keyword(kws, i + 1, title_lower)

\* is_brazil_related without title.lower(): a faulty variant, to show C1 rests on the lowering
is_brazil_related_nolower(t) == any_keyword(brazil_keywords, 1, t)

is_brazil_related(t) ==
    LET title_lower == str_lower(t)
    IN  any_keyword(brazil_keywords, 1, title_lower)

----------------------------------------------------------------------------
(* More string methods used by the scraper.                                *)

\* str.strip(): drop leading and trailing blanks
RECURSIVE str_lstrip(_)
str_lstrip(s) ==
    IF s # <<>> /\ Head(s) = " " THEN str_lstrip(Tail(s)) ELSE s

RECURSIVE str_rstrip(_)
str_rstrip(s) ==
    IF s # <<>> /\ s[Len(s)] = " " THEN str_rstrip(SubSeq(s, 1, Len(s) - 1)) ELSE s

str_strip(s) == str_rstrip(str_lstrip(s))

\* str.split(sep): the pieces between the separators, empty pieces included
RECURSIVE str_split(_, _, _)
str_split(s, sep, piece) ==
    IF s = <<>> THEN <<piece>>
    ELSE IF Head(s) = sep THEN <<piece>> \o str_split(Tail(s), sep, <<>>)
    ELSE str_split(Tail(s), sep, Append(piece, Head(s)))

\* str.replace(old, new) for one-character old and new
str_replace(s, old, new) == [i \in 1..Len(s) |-> IF s[i] = old THEN new ELSE s[i]]

is_letter(c) ==
    \/ \E i \in 1..Len(Lowers) : Lowers[i] = c
    \/ \E i \in 1..Len(Uppers) : Uppers[i] = c

\* str.title(): a letter that follows a non-letter is upper-cased, any other lower-cased
str_title(s) ==
    [i \in 1..Len(s) |->
        IF i = 1 \/ ~is_letter(s[i - 1]) THEN char_upper(s[i]) ELSE char_lower(s[i])]

----------------------------------------------------------------------------
(* The web site: URLs, the landing page and the listing pages.             *)

\* self.base_url, line 22 (the host name is shortened to "s")
base_url == <<"h",":","/","/","s">>

ProgramaSeg == <<"/","p","r","o","g","r","a","m","a","/">>

UrlA        == base_url \o ProgramaSeg \o <<"a","/">>
UrlANoSlash == base_url \o ProgramaSeg \o <<"a">>
UrlARel     == ProgramaSeg \o <<"a","/">>
UrlB        == base_url \o ProgramaSeg \o <<"b","-","c","/">>
UrlAbout    == base_url \o <<"/","s","o","b","r","e","/">>

(* An anchor of the landing page's main-content region.  href: its target; *)
(* text: its own text; sibling: the text of the et_pb_text_inner div that  *)
(* follows its parent (None: no such div); img: the title of the image it  *)
(* wraps (None: no image or no title); in_wrapper: it is the first anchor  *)
(* with a href inside a dsm-perspective-image-wrapper div; in_block: it is *)
(* the first /programa/ anchor inside an et_pb_column div.  The region is  *)
(* the sequence of its anchors in document order.                          *)
Anchor(h, t, sb, im, w, b) ==
    [href |-> h, text |-> t, sibling |-> sb, img |-> im, in_wrapper |-> w, in_block |-> b]

AnchorA      == Anchor(UrlA, <<" ","A"," ">>, None, None, TRUE, FALSE)
AnchorADup   == Anchor(UrlA, <<"A","2">>, None, None, FALSE, TRUE)
AnchorARel   == Anchor(UrlARel, <<>>, <<" ">>, <<"I","m","g"," ","A">>, FALSE, TRUE)
AnchorASlash == Anchor(UrlANoSlash, <<>>, <<"S","i","b">>, None, FALSE, FALSE)
AnchorB      == Anchor(UrlB, <<" ">>, None, None, FALSE, TRUE)
AnchorAbout  == Anchor(UrlAbout, <<"S","o","b","r","e">>, None, None, TRUE, FALSE)

AnchorCands == {AnchorA, AnchorADup, AnchorARel, AnchorASlash, AnchorB, AnchorAbout}

\* most anchors in the main-content region of a landing page
MaxLinks == 2

SeqsUpTo(S, n) == UNION {[1..k -> S] : k \in 0..n}

----------------------------------------------------------------------------
(* _process_podcast_link, lines 113-155.  The dict is the sequence of its  *)
(* items in insertion order.                                               *)

InDict(name, d) == \E i \in 1..Len(d) : d[i].name = name

\* url.split('/')[-2], line 122
podcast_name(url) ==
    LET parts == str_split(url, "/", <<>>) IN parts[Len(parts) - 1]

\* lines 125-147
display_name_of(link, name) ==
    LET own  == str_strip(link.text)
        sib  == IF link.sibling = None THEN <<>> ELSE str_strip(link.sibling)
        img  == IF link.img = None THEN <<>> ELSE link.img
    IN  IF own # <<>> THEN own
        ELSE IF sib # <<>> THEN sib
        ELSE IF img # <<>> THEN img
        ELSE str_title(str_replace(name, "-", " "))

process_podcast_link(link, d) ==
    LET url  == link.href
        name == podcast_name(url)
        display_name == display_name_of(link, name)
    IN  IF ~InDict(name, d)
        THEN Append(d, [name |-> name, url |-> url, nome |-> display_name])
        ELSE d

----------------------------------------------------------------------------
(* discover_podcast_links, lines 64-111.                                   *)

IsProgramLink(href) == str_in(ProgramaSeg, href)

\* any(info['url'] == link['href'] for info in podcasts.values())
UrlRecorded(href, d) == \E i \in 1..Len(d) : d[i].url = href

\* lines 85-89, from the i-th anchor on
RECURSIVE pass_image_links(_, _, _)
pass_image_links(region, i, d) ==
    IF i > Len(region) THEN d
    ELSE IF region[i].in_wrapper /\ IsProgramLink(region[i].href)
    THEN pass_image_links(region, i + 1, process_podcast_link(region[i], d))
    ELSE pass_image_links(region, i + 1, d)

\* lines 92-95
RECURSIVE pass_program_links(_, _, _)
pass_program_links(region, i, d) ==
    IF i > Len(region) THEN d
    ELSE IF IsProgramLink(region[i].href) /\ ~UrlRecorded(region[i].href, d)
    THEN pass_program_links(region, i + 1, process_podcast_link(region[i], d))
    ELSE pass_program_links(region, i + 1, d)

\* lines 98-102
RECURSIVE pass_content_blocks(_, _, _)
pass_content_blocks(region, i, d) ==
    IF i > Len(region) THEN d
    ELSE IF region[i].in_block /\ IsProgramLink(region[i].href)
            /\ ~UrlRecorded(region[i].href, d)
    THEN pass_content_blocks(region, i + 1, process_podcast_link(region[i], d))
    ELSE pass_content_blocks(region, i + 1, d)

----------------------------------------------------------------------------
(* Listing pages.  A page is served at PageUrl(i), i in 1..MaxPages; what  *)
(* it lists is fixed by i, its next-page link is the input  site.          *)

\* number of listing pages the site serves
MaxPages == 3

Digits == <<"1","2","3","4","5","6","7","8","9">>

PageUrl(i) ==
    IF i = 1 THEN UrlA
    ELSE IF i = 2 THEN UrlB
    ELSE UrlA \o <<"p","/",Digits[i],"/">>

PageUrls == {PageUrl(i) : i \in 1..MaxPages}

PageIndex(u) == CHOOSE i \in 1..MaxPages : PageUrl(i) = u

(* An article element (article.dgbm_post_item).  has_title: it holds an    *)
(* h2.dg_bm_title with an anchor; title: that anchor's text; href: its     *)
(* target (None: the anchor has no href); date: the text of span.published *)
(* (None: no such span).                                                   *)
Article(ht, t, h, d) == [has_title |-> ht, title |-> t, href |-> h, date |-> d]

TitleRevolucao == <<"R","e","v","o","l","u","c,","a~","o"," ","F","r","a","n","c","e","s","a">>
TitleJK        == <<" ","O"," ","g","o","v","e","r","n","o"," ","J","K"," ">>
TitleBrasil    == <<"A"," ","I","n","d","e","p","e","n","d","e^","n","c","i","a"," ",
                    "d","o"," ","B","r","a","s","i","l">>
TitleImperio   == <<"D","o","m"," ","P","e","d","r","o"," ","I","I">>

EpisodeUrl(i, j) == base_url \o <<"/","e","/",Digits[i],Digits[j],"/">>

PageArticles(i) ==
    LET kind == ((i - 1) % 3) + 1 IN
    IF kind = 1 THEN
        << Article(TRUE, TitleRevolucao, EpisodeUrl(i, 1), <<"1","/","1">>),
           Article(TRUE, TitleJK, EpisodeUrl(i, 2), <<" ","2","/","1"," ">>) >>
    ELSE IF kind = 2 THEN
        << Article(FALSE, <<>>, None, None),
           Article(TRUE, TitleRevolucao, EpisodeUrl(i, 2), None) >>
    ELSE
        << Article(TRUE, TitleBrasil, EpisodeUrl(i, 1), None),
           Article(TRUE, TitleImperio, None, <<"3","/","1">>) >>

\* the parsed document of the listing page at u
Doc(u) == [url |-> u, articles |-> PageArticles(PageIndex(u)), next |-> site[u]]

Sites == [PageUrls -> PageUrls \cup {None}]

(* get_soup, lines 36-62: what a call can return.  Any request can fail;   *)
(* a URL the site does not serve (or a relative one) always fails.         *)
get_soup(url) == {NoneObj} \cup (IF url \in PageUrls THEN {Doc(url)} ELSE {})

----------------------------------------------------------------------------
(* extract_episode_info, lines 170-200.                                    *)

DataNaoDisponivel ==
    <<"D","a","t","a"," ","n","a~","o"," ","d","i","s","p","o","n","i'","v","e","l">>

extract_episode_info(article) ==
    IF ~article.has_title THEN NoneObj
    ELSE LET t == str_strip(article.title) IN
         IF ~is_brazil_related(t) THEN NoneObj
         ELSE IF article.href = None THEN NoneObj     \* KeyError, caught at line 198
         ELSE [titulo |-> t,
               link   |-> article.href,
               data   |-> IF article.date = None THEN DataNaoDisponivel
                          ELSE str_strip(article.date)]

(* scrape_podcast_page, lines 202-223, given what its get_soup returned.   *)
RECURSIVE extract_all(_, _)
extract_all(articles, i) ==
    IF i > Len(articles) THEN <<>>
    ELSE LET episode == extract_episode_info(articles[i]) IN
         (IF episode # NoneObj THEN <<episode>> ELSE <<>>) \o extract_all(articles, i + 1)

scrape_podcast_page(fetched) ==
    IF fetched = NoneObj THEN <<>> ELSE extract_all(fetched.articles, 1)

(* get_next_page_url, lines 225-238.  doc.next is the href of the anchor in *)
(* the first div.alignleft, None when there is no such div or anchor; an   *)
(* anchor there is taken to carry a href.                                  *)
\* a faulty variant that never finds the link: C3 rests on following it
get_next_page_url_none(doc) == None

\* a faulty variant that takes the page's own address for the link: C8 rests on
\* the link leading on
get_next_page_url_self(doc) == doc.url

get_next_page_url(doc) == doc.next

----------------------------------------------------------------------------
(* save_results, lines 269-317.  io says which of its filesystem calls     *)
(* fail: mkdir (os.makedirs, line 283), write (to_csv, line 297), check    *)
(* (read_csv, line 302), backup (to_csv, line 317).  The result is the     *)
(* filesystem it leaves and whether an exception leaves the method.        *)

IOs == [mkdir : BOOLEAN, write : BOOLEAN, check : BOOLEAN, backup : BOOLEAN]

ResultFile(name) == <<"result", name>>
BackupFile(name) == <<"backup", name>>

\* a faulty variant that creates the directory before it looks at the list: C6
\* rests on the early return
save_results_mkdir_first(eps, name, io, dir, fs) ==
    IF io.mkdir THEN [dir |-> dir, files |-> fs, raised |-> TRUE]
    ELSE IF eps = <<>> THEN [dir |-> TRUE, files |-> fs, raised |-> FALSE]
    ELSE [dir |-> TRUE, files |-> fs \cup {ResultFile(name)}, raised |-> FALSE]

save_results(eps, name, io, dir, fs) ==
    IF eps = <<>> THEN [dir |-> dir, files |-> fs, raised |-> FALSE]          \* 278-280
    ELSE IF io.mkdir THEN [dir |-> dir, files |-> fs, raised |-> TRUE]        \* 283
    ELSE IF ~io.write /\ ~io.check
    THEN [dir |-> TRUE, files |-> fs \cup {ResultFile(name)}, raised |-> FALSE]
    ELSE LET written == IF io.write THEN fs ELSE fs \cup {ResultFile(name)} IN
         IF io.backup
         THEN [dir |-> TRUE, files |-> written, raised |-> TRUE]              \* 317 raises
         ELSE [dir |-> TRUE, files |-> written \cup {BackupFile(name)}, raised |-> FALSE]

----------------------------------------------------------------------------
(* The state machine.                                                      *)

\* A walk over a site without a cycle makes at most MaxPages iterations.  The
\* model follows the loop exactly for that many: page_num, which is only
\* printed, counts up to IterCap, and from iteration IterCap on (the walk is
\* going round a cycle) all_episodes and visited are no longer extended.
IterCap == MaxPages + 1

NoLinks == [u \in PageUrls |-> None]

(* The landing page: whether it has the div et-main-area, and that         *)
(* region's anchors.                                                       *)
Landing(m, r) == [has_main |-> m, region |-> r]

MainLandings == {Landing(FALSE, <<>>), Landing(TRUE, <<AnchorA, AnchorB>>)}

InitCommon ==
    /\ brazil_keywords = BrazilKeywordsInit
    /\ podcasts = <<>>
    /\ idx = 0
    /\ all_episodes = <<>>
    /\ current_url = None
    /\ page_num = 0
    /\ soup = NoneObj
    /\ episodes = <<>>
    /\ dir_exists = FALSE
    /\ files = {}
    /\ trace = <<>>
    /\ visited = <<>>
    /\ fetch_failed = FALSE

\* a run of main() against some site
Init ==
    /\ InitCommon
    /\ pc = "main"
    /\ title = <<>>
    /\ related = FALSE
    /\ landing \in MainLandings
    /\ site \in Sites

filterVars == <<brazil_keywords, title, related>>
inputVars  == <<landing, site>>
scrapeVars == <<all_episodes, current_url, page_num, soup, episodes>>
histVars   == <<trace, visited, fetch_failed>>
fsVars     == <<dir_exists, files>>

(* discover_podcast_links, lines 73-82: fetch the landing page and find    *)
(* its main-content region.                                                *)
DiscoverFetch ==
    /\ pc = "main"
    /\ \E fetched \in BOOLEAN :
          pc' = IF fetched /\ landing.has_main THEN "pass1" ELSE "discovered"
    /\ podcasts' = <<>>
    /\ UNCHANGED <<filterVars, inputVars, idx, scrapeVars, histVars, fsVars>>

(* lines 84-89 *)
PassImageLinks ==
    /\ pc = "pass1"
    /\ podcasts' = pass_image_links(landing.region, 1, podcasts)
    /\ pc' = "pass2"
    /\ UNCHANGED <<filterVars, inputVars, idx, scrapeVars, histVars, fsVars>>

(* lines 91-95 *)
PassProgramLinks ==
    /\ pc = "pass2"
    /\ podcasts' = pass_program_links(landing.region, 1, podcasts)
    /\ pc' = "pass3"
    /\ UNCHANGED <<filterVars, inputVars, idx, scrapeVars, histVars, fsVars>>

(* lines 97-111 *)
PassContentBlocks ==
    /\ pc = "pass3"
    /\ podcasts' = pass_content_blocks(landing.region, 1, podcasts)
    /\ pc' = "discovered"
    /\ UNCHANGED <<filterVars, inputVars, idx, scrapeVars, histVars, fsVars>>

(* main, lines 327-333 *)
MainCheck ==
    /\ pc = "discovered"
    /\ IF podcasts = <<>>
       THEN pc' = "done" /\ idx' = idx
       ELSE pc' = "for" /\ idx' = 1
    /\ UNCHANGED <<filterVars, inputVars, podcasts, scrapeVars, histVars, fsVars>>

(* main, lines 336-338, and scrape_podcast, lines 250-252 *)
EnterScrape ==
    /\ pc = "for"
    /\ idx <= Len(podcasts)
    /\ all_episodes' = <<>>
    /\ current_url' = podcasts[idx].url
    /\ page_num' = 1
    /\ trace' = <<>>
    /\ visited' = <<>>
    /\ fetch_failed' = FALSE
    /\ pc' = "while"
    /\ UNCHANGED <<filterVars, inputVars, podcasts, idx, soup, episodes, fsVars>>

(* main, line 336: the for loop is exhausted *)
MainDone ==
    /\ pc = "for"
    /\ idx > Len(podcasts)
    /\ pc' = "done"
    /\ UNCHANGED <<filterVars, inputVars, podcasts, idx, scrapeVars, histVars, fsVars>>

(* scrape_podcast, lines 254-258; on break, line 267: the method returns   *)
(* all_episodes and its other locals are gone                              *)
LoopFetch ==
    /\ pc = "while"
    /\ current_url # None
    /\ \E fetched \in get_soup(current_url) :
          IF fetched = NoneObj
          THEN /\ pc' = "save"
               /\ soup' = NoneObj
               /\ current_url' = None
               /\ page_num' = 0
               /\ episodes' = <<>>
               /\ visited' = visited
               /\ fetch_failed' = TRUE
          ELSE /\ pc' = "page"
               /\ soup' = fetched
               /\ UNCHANGED <<current_url, page_num, episodes>>
               /\ visited' = IF page_num < IterCap THEN Append(visited, current_url) ELSE visited
               /\ fetch_failed' = fetch_failed
    /\ trace' = Append(trace, "fetch")
    /\ UNCHANGED <<filterVars, inputVars, podcasts, idx, all_episodes, fsVars>>

(* scrape_podcast, line 254 with current_url None, and line 267 *)
LoopExit ==
    /\ pc = "while"
    /\ current_url = None
    /\ pc' = "save"
    /\ soup' = NoneObj
    /\ page_num' = 0
    /\ episodes' = <<>>
    /\ UNCHANGED <<filterVars, inputVars, podcasts, idx, all_episodes, current_url,
                   histVars, fsVars>>

(* scrape_podcast, lines 260-261: scrape_podcast_page fetches the URL again *)
ScrapePage ==
    /\ pc = "page"
    /\ \E fetched \in get_soup(current_url) :
          /\ episodes' = scrape_podcast_page(fetched)
          /\ fetch_failed' = (fetch_failed \/ fetched = NoneObj)
    /\ all_episodes' = IF page_num < IterCap THEN all_episodes \o episodes' ELSE all_episodes
    /\ trace' = Append(trace, "fetch")
    /\ pc' = "advance"
    /\ UNCHANGED <<filterVars, inputVars, podcasts, idx, current_url, page_num, soup,
                   visited, fsVars>>

(* scrape_podcast, lines 263-265 *)
Advance ==
    /\ pc = "advance"
    /\ current_url' = get_next_page_url(soup)
    /\ page_num' = IF page_num < IterCap THEN page_num + 1 ELSE page_num
    /\ trace' = <<"sleep">>
    /\ pc' = "while"
    /\ UNCHANGED <<filterVars, inputVars, podcasts, idx, all_episodes, soup, episodes,
                   visited, fetch_failed, fsVars>>

(* main, line 339: save_results(episodes, podcast_name); the list and the  *)
(* history of the scrape_podcast call that built it end here               *)
SaveResults ==
    /\ pc = "save"
    /\ \E io \in IOs :
         LET r == save_results(all_episodes, podcasts[idx].name, io, dir_exists, files) IN
            /\ dir_exists' = r.dir
            /\ files' = r.files
            /\ IF r.raised
               THEN pc' = "aborted" /\ idx' = idx
               ELSE pc' = "for" /\ idx' = idx + 1
    /\ all_episodes' = <<>>
    /\ trace' = <<>>
    /\ visited' = <<>>
    /\ fetch_failed' = FALSE
    /\ UNCHANGED <<filterVars, inputVars, podcasts, current_url, page_num, soup, episodes>>

Next ==
    \/ DiscoverFetch
    \/ PassImageLinks
    \/ PassProgramLinks
    \/ PassContentBlocks
    \/ MainCheck
    \/ EnterScrape
    \/ MainDone
    \/ LoopFetch
    \/ LoopExit
    \/ ScrapePage
    \/ Advance
    \/ SaveResults

Spec == Init /\ [][Next]_vars

(* A run of main() against a site with one show, under the fairness of a   *)
(* sequential program: the interpreter keeps running it and every request  *)
(* returns or fails, so a step that can be taken is taken.                  *)
InitOneShow ==
    /\ InitCommon
    /\ pc = "main"
    /\ title = <<>>
    /\ related = FALSE
    /\ landing = Landing(TRUE, <<AnchorA>>)
    /\ site \in Sites

FairSpec == InitOneShow /\ [][Next]_vars /\ WF_vars(Next)

----------------------------------------------------------------------------
(* Direct calls of is_brazil_related on every short title over TitleChars. *)

TitleChars == {"j", "k", "J", "K", "x"}

Titles == SeqsUpTo(TitleChars, MaxTitleLen)

InitFilter ==
    /\ InitCommon
    /\ pc = "is_brazil_related"
    /\ title \in Titles
    /\ related = FALSE
    /\ landing = Landing(FALSE, <<>>)
    /\ site = NoLinks

CallIsBrazilRelated ==
    /\ pc = "is_brazil_related"
    /\ related' = is_brazil_related(title)
    /\ pc' = "returned"
    /\ UNCHANGED <<brazil_keywords, title, inputVars, podcasts, idx, scrapeVars,
                   histVars, fsVars>>

NextFilter == CallIsBrazilRelated

SpecFilter == InitFilter /\ [][NextFilter]_vars

(* discover_podcast_links alone, on every landing page of at most MaxLinks *)
(* anchors.                                                                *)

InitDiscover ==
    /\ InitCommon
    /\ pc = "main"
    /\ title = <<>>
    /\ related = FALSE
    /\ landing \in {Landing(m, r) : m \in BOOLEAN, r \in SeqsUpTo(AnchorCands, MaxLinks)}
    /\ site = NoLinks

NextDiscover ==
    \/ DiscoverFetch
    \/ PassImageLinks
    \/ PassProgramLinks
    \/ PassContentBlocks

SpecDiscover == InitDiscover /\ [][NextDiscover]_vars

----------------------------------------------------------------------------
(* What the properties speak of.                                           *)

\* the lower-cased title holds a keyword of the list of lines 27-34
HasKeyword(t) ==
    \E k \in 1..Len(BrazilKeywordsInit) :
        LET kw == BrazilKeywordsInit[k] IN
        \E p \in 0..(Len(t) - Len(kw)) :
            \A q \in 1..Len(kw) : char_lower(t[p + q]) = kw[q]

\* the episodes a listing page lists: articles with a title anchor and a target
IsListed(a) == a.has_title /\ a.href # None

Links(eps) == [k \in 1..Len(eps) |-> eps[k].link]

\* the targets of the listed episodes of page u with a relevant title, in page order
RECURSIVE RelevantFrom(_, _)
RelevantFrom(articles, i) ==
    IF i > Len(articles) THEN <<>>
    ELSE (IF IsListed(articles[i]) /\ HasKeyword(articles[i].title)
          THEN <<articles[i].href>> ELSE <<>>) \o RelevantFrom(articles, i + 1)

RelevantLinks(u) == RelevantFrom(PageArticles(PageIndex(u)), 1)

RECURSIVE RelevantLinksOfPages(_)
RelevantLinksOfPages(urls) ==
    IF urls = <<>> THEN <<>>
    ELSE RelevantLinks(Head(urls)) \o RelevantLinksOfPages(Tail(urls))

\* the URL the running scrape_podcast call was given
StartUrl == podcasts[idx].url

\* the pages reached from u by following next-page links, at most fuel of them
RECURSIVE ChainFrom(_, _)
ChainFrom(u, fuel) ==
    IF u = None \/ u \notin PageUrls \/ fuel = 0 THEN <<>>
    ELSE <<u>> \o ChainFrom(site[u], fuel - 1)

\* following the links from u ends at a page without one, no page met twice
IsChain(u) == u \in PageUrls /\ Len(ChainFrom(u, MaxPages + 1)) <= MaxPages

FetchCount(t) == Cardinality({i \in 1..Len(t) : t[i] = "fetch"})

----------------------------------------------------------------------------
(* Properties.                                                             *)

\* C1: is_brazil_related(T) is true iff the lower-cased T holds a keyword of the
\* list as a substring; the answer is the same for T in upper and in lower case;
\* the call leaves the keyword list as __init__ built it.  (SpecFilter)
C1_RelatedIffKeyword ==
    pc = "returned" =>
        /\ related <=> HasKeyword(title)
        /\ related <=> is_brazil_related(str_upper(title))
        /\ related <=> is_brazil_related(str_lower(title))
        /\ brazil_keywords = BrazilKeywordsInit

C1_Witness ==
    pc = "returned" /\ related /\ title # str_lower(title) /\ Len(title) > 2

\* C2: when scrape_podcast returns, a listed episode of a page the loop obtained
\* is in the returned list iff its title holds a keyword.
C2_ResultIffRelevant ==
    pc = "save" =>
        \A i \in 1..Len(visited) :
            LET articles == PageArticles(PageIndex(visited[i])) IN
            \A j \in 1..Len(articles) :
                IsListed(articles[j]) =>
                    ((\E k \in 1..Len(all_episodes) : all_episodes[k].link = articles[j].href)
                        <=> HasKeyword(articles[j].title))

\* C3: on a chain of n pages with every fetch succeeding, scrape_podcast obtains
\* exactly the n pages in chain order, stops, and returns the relevant episodes of
\* all of them in page order.
C3_ChainVisitedInOrder ==
    (pc = "save" /\ ~fetch_failed /\ IsChain(StartUrl)) =>
        /\ visited = ChainFrom(StartUrl, MaxPages)
        /\ Links(all_episodes) = RelevantLinksOfPages(ChainFrom(StartUrl, MaxPages))

C3_Witness ==
    /\ pc = "save"
    /\ ~fetch_failed
    /\ IsChain(StartUrl)
    /\ Len(visited) = 3
    /\ Len(all_episodes) > 1

\* C4: once a fetch of the N-th page has failed the loop has stopped (no later
\* fetch, no further iteration) and what is returned is exactly the relevant
\* episodes of the N-1 pages obtained before, in order.
C4_FetchFailureStopsLoop ==
    fetch_failed =>
        /\ pc = "save"
        /\ Links(all_episodes) = RelevantLinksOfPages(visited)

\* the show a /programa/ URL points to: the path segment after "programa"
show_path(url) ==
    LET parts == str_split(url, "/", <<>>)
        k == CHOOSE i \in 1..Len(parts) : parts[i] = <<"p","r","o","g","r","a","m","a">>
    IN  parts[k + 1]

\* the anchor of the region that the earliest pass finds for a show: the first
\* image-wrapper anchor to it if there is one, else the first anchor to it
FirstFound(region, show) ==
    LET to_show == {i \in 1..Len(region) :
                       IsProgramLink(region[i].href) /\ show_path(region[i].href) = show}
        wrapped == {i \in to_show : region[i].in_wrapper}
        pick(S) == CHOOSE i \in S : \A j \in S : i <= j
    IN  region[IF wrapped # {} THEN pick(wrapped) ELSE pick(to_show)]

\* C5: discovery keeps one entry per show path however its links are written,
\* and the entry is that of the link the earliest pass found.  (SpecDiscover)
C5_OneEntryPerShow ==
    (pc = "discovered" /\ podcasts # <<>>) =>
        \A i \in 1..Len(landing.region) :
            IsProgramLink(landing.region[i].href) =>
                LET show    == show_path(landing.region[i].href)
                    first   == FirstFound(landing.region, show)
                    entries == {k \in 1..Len(podcasts) : show_path(podcasts[k].url) = show}
                IN  /\ Cardinality(entries) = 1
                    /\ \A k \in entries :
                          /\ podcasts[k].url = first.href
                          /\ podcasts[k].nome = display_name_of(first, podcast_name(first.href))

\* C6: save_results called with an empty list leaves the filesystem as it was
\* (no directory, no result file, no backup file) and returns normally, so main
\* goes on to the next show.
C6_EmptySaveWritesNothing ==
    [][(pc = "save" /\ all_episodes = <<>>) =>
          (dir_exists' = dir_exists /\ files' = files /\ pc' = "for")]_vars

C6_Witness ==
    pc = "for" /\ idx = 2 /\ ~dir_exists /\ files = {}

\* C7: main never aborts, and when it is done every discovered show has been
\* scraped and saved once, in mapping order.
C7_MainRunsToCompletion ==
    /\ pc # "aborted"
    /\ pc = "done" => (podcasts = <<>> \/ idx = Len(podcasts) + 1)

\* C8 as claimed: whatever the next-page links, scrape_podcast leaves its loop
\* and returns.  (FairSpec)
C8_AlwaysReturns == (pc = "while") ~> (pc = "save")

\* C8 as amended: when the next-page links followed from the starting URL meet no
\* page twice, scrape_podcast leaves its loop and returns.  (FairSpec)
C8_ReturnsWithoutCycle ==
    (pc = "while" /\ (StartUrl \in PageUrls => IsChain(StartUrl))) ~> (pc = "save")

C8_Witness ==
    /\ pc = "save"
    /\ StartUrl \in PageUrls
    /\ IsChain(StartUrl)
    /\ Len(visited) = 2
    /\ ~fetch_failed

\* C9: an iteration fetches its page once, and the episodes it appends are the
\* relevant episodes of the document whose next-page link it follows.
C9_OneDocumentPerIteration ==
    pc = "advance" =>
        /\ FetchCount(trace) = 1
        /\ Links(episodes) = RelevantFrom(soup.articles, 1)

\* C10: between two consecutive fetches of a scrape_podcast call there is a sleep.
C10_SleepBetweenFetches ==
    \A i \in 1..(Len(trace) - 1) : ~(trace[i] = "fetch" /\ trace[i + 1] = "fetch")
====
